---- MODULE Spec2Model ----
(***************************************************************************)
(* Model of the py-trade-bot trading cycle: the driving loop (bot.py and   *)
(* the worker thread of App.py), the news risk guard, the trade manager    *)
(* with its capital gate and position sizer, order execution and the       *)
(* persistence layer.                                                      *)
(*                                                                         *)
(* Python floats are IEEE-754 binary64 values.  They are modelled exactly: *)
(* a float is a record [m, e] standing for m * 2^e, m a natural number     *)
(* kept as a little-endian sequence of base-2^15 limbs, and every          *)
(* arithmetic operation rounds its exact result to a 53-bit significand,   *)
(* ties to even.  All amounts of the program are non-negative and far from *)
(* the exponent limits, so signs, subnormals and infinities are left out.  *)
(***************************************************************************)
EXTENDS Integers, Sequences, FiniteSets, TLC

\* ------------------------------------------------------------------------
\* Natural numbers of arbitrary size (little-endian limbs, no leading zero)
\* ------------------------------------------------------------------------
LimbBits == 15

LimbBase == 32768

RECURSIVE BNorm(_)
BNorm(a) ==
    IF a = <<>> THEN a
    ELSE IF a[Len(a)] = 0 THEN BNorm(SubSeq(a, 1, Len(a) - 1)) ELSE a

RECURSIVE BCmpFrom(_, _, _)
BCmpFrom(a, b, i) ==
    IF i = 0 THEN 0
    ELSE IF a[i] < b[i] THEN -1
    ELSE IF a[i] > b[i] THEN 1
    ELSE BCmpFrom(a, b, i - 1)

BCmp(a, b) ==
    IF Len(a) < Len(b) THEN -1
    ELSE IF Len(a) > Len(b) THEN 1
    ELSE BCmpFrom(a, b, Len(a))

RECURSIVE BAddC(_, _, _)
BAddC(a, b, c) ==
    IF a = <<>> /\ b = <<>> THEN (IF c = 0 THEN <<>> ELSE <<c>>)
    ELSE LET x == IF a = <<>> THEN 0 ELSE Head(a)
             y == IF b = <<>> THEN 0 ELSE Head(b)
             s == x + y + c
         IN  <<s % LimbBase>> \o
             BAddC(IF a = <<>> THEN a ELSE Tail(a),
                   IF b = <<>> THEN b ELSE Tail(b), s \div LimbBase)

BAdd(a, b) == BAddC(a, b, 0)

RECURSIVE BSubC(_, _, _)
BSubC(a, b, c) ==
    IF a = <<>> THEN <<>>
    ELSE LET y == IF b = <<>> THEN 0 ELSE Head(b)
             d == Head(a) - y - c
         IN  <<IF d < 0 THEN d + LimbBase ELSE d>> \o
             BSubC(Tail(a), IF b = <<>> THEN b ELSE Tail(b),
                   IF d < 0 THEN 1 ELSE 0)

\* a - b for a >= b
BSub(a, b) == BNorm(BSubC(a, b, 0))

RECURSIVE BMulSmallC(_, _, _)
BMulSmallC(a, k, c) ==
    IF a = <<>> THEN (IF c = 0 THEN <<>> ELSE <<c>>)
    ELSE LET p == Head(a) * k + c
         IN  <<p % LimbBase>> \o BMulSmallC(Tail(a), k, p \div LimbBase)

\* a * k for 0 <= k <= LimbBase
BMulSmall(a, k) == BNorm(BMulSmallC(a, k, 0))

RECURSIVE BMulRaw(_, _)
BMulRaw(a, b) ==
    IF b = <<>> THEN <<>>
    ELSE BAdd(BMulSmallC(a, Head(b), 0), <<0>> \o BMulRaw(a, Tail(b)))

BMul(a, b) == BNorm(BMulRaw(a, b))

RECURSIVE BDivSmallFrom(_, _, _, _)
BDivSmallFrom(a, k, i, r) ==
    IF i = 0 THEN <<>>
    ELSE LET x == r * LimbBase + a[i]
         IN  BDivSmallFrom(a, k, i - 1, x % k) \o <<x \div k>>

\* floor(a / k) for 1 <= k <= LimbBase
BDivSmall(a, k) == BNorm(BDivSmallFrom(a, k, Len(a), 0))

Zeros(n) == [i \in 1..n |-> 0]

\* a * 2^k
BShl(a, k) ==
    IF a = <<>> THEN a
    ELSE Zeros(k \div LimbBits) \o BMulSmall(a, 2 ^ (k % LimbBits))

\* floor(a / 2^k)
BShr(a, k) ==
    IF Len(a) <= k \div LimbBits THEN <<>>
    ELSE BDivSmall(SubSeq(a, (k \div LimbBits) + 1, Len(a)), 2 ^ (k % LimbBits))

RECURSIVE SmallBitLen(_)
SmallBitLen(x) == IF x = 0 THEN 0 ELSE 1 + SmallBitLen(x \div 2)

BitLen(a) ==
    IF a = <<>> THEN 0 ELSE LimbBits * (Len(a) - 1) + SmallBitLen(a[Len(a)])

BOdd(a) == a # <<>> /\ a[1] % 2 = 1

\* the largest q <= qhat with b * q <= r
RECURSIVE BDigitDown(_, _, _)
BDigitDown(r, b, qhat) ==
    IF BCmp(BMulSmall(b, qhat), r) > 0 THEN BDigitDown(r, b, qhat - 1)
    ELSE qhat

\* floor(r / b) for r < b * LimbBase and b with its top limb >= LimbBase / 2:
\* the quotient of the leading limbs overestimates it by at most two
BDigit(r, b) ==
    IF BCmp(r, b) < 0 THEN 0
    ELSE LET n    == Len(b)
             top  == (IF Len(r) > n THEN r[n + 1] * LimbBase ELSE 0) + r[n]
             qhat == top \div b[n]
         IN  BDigitDown(r, b, IF qhat >= LimbBase THEN LimbBase - 1 ELSE qhat)

\* long division, one limb of a at a time from the top: <<quotient, remainder>>
RECURSIVE BDivModFrom(_, _, _, _, _)
BDivModFrom(a, b, i, q, r) ==
    IF i = 0 THEN <<BNorm(q), r>>
    ELSE LET r2 == BNorm(<<a[i]>> \o r)
             d  == BDigit(r2, b)
         IN  BDivModFrom(a, b, i - 1, <<d>> \o q, BSub(r2, BMulSmall(b, d)))

\* <<floor(a / b), a mod b>> for b > 0
BDivMod(a, b) ==
    LET sh == LimbBits - SmallBitLen(b[Len(b)])
        qr == BDivModFrom(BShl(a, sh), BShl(b, sh), Len(BShl(a, sh)), <<>>, <<>>)
    IN  <<qr[1], BShr(qr[2], sh)>>

RECURSIVE BFromInt(_)
BFromInt(n) ==
    IF n = 0 THEN <<>> ELSE <<n % LimbBase>> \o BFromInt(n \div LimbBase)

\* ------------------------------------------------------------------------
\* IEEE-754 binary64 values (Python float), non-negative, [m, e] = m * 2^e
\* with m odd (or m = 0, e = 0), so that equal values are equal records
\* ------------------------------------------------------------------------
FPrecision == 53

RECURSIVE FCanon(_, _)
FCanon(m, e) ==
    IF m = <<>> THEN [m |-> <<>>, e |-> 0]
    ELSE IF m[1] = 0 THEN FCanon(Tail(m), e + LimbBits)
    ELSE IF m[1] % 2 = 0 THEN FCanon(BDivSmall(m, 2), e + 1)
    ELSE [m |-> m, e |-> e]

\* the float nearest to M * 2^E (plus a positive amount below 2^E when
\* sticky), ties to even
FRound(M, E, sticky) ==
    LET n == BitLen(M)
    IN  IF n <= FPrecision THEN FCanon(M, E)
        ELSE LET s    == n - FPrecision
                 q    == BShr(M, s)
                 r    == BSub(M, BShl(q, s))
                 c    == BCmp(r, BShl(<<1>>, s - 1))
                 up   == c > 0 \/ (c = 0 /\ (sticky \/ BOdd(q)))
             IN  FCanon(IF up THEN BAdd(q, <<1>>) ELSE q, E + s)

FZero == [m |-> <<>>, e |-> 0]

FFromInt(n) == FRound(BFromInt(n), 0, FALSE)

FMul(x, y) == FRound(BMul(x.m, y.m), x.e + y.e, FALSE)

FDiv(x, y) ==
    IF x.m = <<>> THEN FZero
    ELSE LET need == (FPrecision + 2) + BitLen(y.m) - BitLen(x.m)
             k    == IF need > 0 THEN need ELSE 0
             qr   == BDivMod(BShl(x.m, k), y.m)
         IN  FRound(qr[1], x.e - y.e - k, qr[2] # <<>>)

FMinExp(x, y) == IF x.e < y.e THEN x.e ELSE y.e

\* -1, 0, 1 as x < y, x = y, x > y
FCmp(x, y) ==
    IF x.m = <<>> THEN (IF y.m = <<>> THEN 0 ELSE -1)
    ELSE IF y.m = <<>> THEN 1
    ELSE BCmp(BShl(x.m, x.e - FMinExp(x, y)), BShl(y.m, y.e - FMinExp(x, y)))

FLe(x, y) == FCmp(x, y) <= 0

FLt(x, y) == FCmp(x, y) < 0

FAdd(x, y) ==
    IF x.m = <<>> THEN y
    ELSE IF y.m = <<>> THEN x
    ELSE FRound(BAdd(BShl(x.m, x.e - FMinExp(x, y)), BShl(y.m, y.e - FMinExp(x, y))),
                FMinExp(x, y), FALSE)

\* x - y for x >= y
FSub(x, y) ==
    IF y.m = <<>> THEN x
    ELSE FRound(BSub(BShl(x.m, x.e - FMinExp(x, y)), BShl(y.m, y.e - FMinExp(x, y))),
                FMinExp(x, y), FALSE)

\* Python's min(x, y): y if y < x else x
FMin(x, y) == IF FLt(y, x) THEN y ELSE x

\* the float a decimal literal n/d denotes (correctly rounded)
FDec(n, d) == FDiv(FFromInt(n), FFromInt(d))

\* ------------------------------------------------------------------------
\* Texts: a str is a sequence of one-character strings
\* ------------------------------------------------------------------------
LowerCase == <<"a", "b", "c", "d", "e", "f", "g", "h", "i", "j", "k", "l", "m", "n", "o", "p", "q", "r", "s", "t", "u", "v", "w", "x", "y", "z">>

UpperCase == <<"A", "B", "C", "D", "E", "F", "G", "H", "I", "J", "K", "L", "M", "N", "O", "P", "Q", "R", "S", "T", "U", "V", "W", "X", "Y", "Z">>

\* the characters str.split() and str.strip() take for separators
Whitespace == {" "}

RECURSIVE LetterIndex(_, _)
LetterIndex(c, i) ==
    IF i > Len(LowerCase) THEN 0
    ELSE IF LowerCase[i] = c THEN i
    ELSE LetterIndex(c, i + 1)

\* str.upper()
upper(text) ==
    [i \in 1..Len(text) |->
        IF LetterIndex(text[i], 1) # 0 THEN UpperCase[LetterIndex(text[i], 1)]
        ELSE text[i]]

\* str.split(): the maximal runs of characters that are no whitespace;
\* word is the run being read, words the runs completed
RECURSIVE SplitFrom(_, _, _, _)
SplitFrom(text, i, word, words) ==
    IF i > Len(text)
    THEN (IF word = <<>> THEN words ELSE Append(words, word))
    ELSE IF text[i] \in Whitespace
    THEN SplitFrom(text, i + 1, <<>>,
                   IF word = <<>> THEN words ELSE Append(words, word))
    ELSE SplitFrom(text, i + 1, Append(word, text[i]), words)

split(text) == SplitFrom(text, 1, <<>>, <<>>)

\* "needle in text" of two str
RECURSIVE FoundFrom(_, _, _)
FoundFrom(needle, text, i) ==
    IF i + Len(needle) - 1 > Len(text) THEN FALSE
    ELSE IF SubSeq(text, i, i + Len(needle) - 1) = needle THEN TRUE
    ELSE FoundFrom(needle, text, i + 1)

In(needle, text) == FoundFrom(needle, text, 1)

\* seq[:n]
Slice(seq, n) == SubSeq(seq, 1, IF Len(seq) < n THEN Len(seq) ELSE n)

\* ------------------------------------------------------------------------
\* Configuration and bounds
\* ------------------------------------------------------------------------
\* config.DAILY_INVESTMENT_LIMIT (default set by TradingBot.setup)
DAILY_INVESTMENT_LIMIT == FFromInt(20)

\* config.BASE_LOT (default of the settings form)
BASE_LOT == FDec(1, 100)

\* the scaling constant of the sizer and of the committed amount
LOT_NOTIONAL == FFromInt(1000)

\* fallback of get_currency_price when no symbol info is available
FALLBACK_PRICE == FFromInt(1)

\* seconds of one step of the worker's interruptible sleep
SLEEP_STEP == 1

\* seconds of the sleep after an error: App.py worker, bot.py loop
ERROR_SLEEP == 10

ERROR_SLEEP_CLI == 60

\* config.CHECK_INTERVAL_SECONDS, scaled down
CheckInterval == 2

\* worker threads the Start button creates
MaxWorkers == 2

\* iterations started, all workers together
MaxIters == 2

\* tickets the broker issues
MaxTickets == 1

Workers == 1..MaxWorkers

\* bid/ask quotes the broker may report
Quotes ==
    { [ok |-> TRUE, bid |-> FDec(20999, 10000), ask |-> FDec(21001, 10000)] }

\* the empty dictionary get_symbol_info returns on a failure
EmptyInfo == [ok |-> FALSE, bid |-> FZero, ask |-> FZero]

\* the single calendar day of the model
today == 1

VARIABLES
    mode,               \* "cli": main.py runs TradingBot.run; "ui": App.py
    connected,          \* the process-wide MetaTrader5 session is initialized
    positions,          \* tickets of the positions open at the broker
    issued,             \* number of tickets the broker has issued
    daily_investments,  \* table daily_investments
    signals,            \* table signals, id = index
    trades,             \* table trades
    bot_running,        \* st.session_state.bot_running
    stop_bot,           \* the threading.Event stop_bot
    pc,                 \* position of each worker
    loc,                \* local variables of each worker's iteration
    cyc,                \* history of each worker's current iteration
    iters,              \* iterations started so far
    interrupted,        \* Ctrl-C was delivered to the cli
    sz,                 \* the capital gate and the sizer applied to free inputs
    ut                  \* one function of the program applied to free inputs

vars == <<mode, connected, positions, issued, daily_investments, signals, trades,
          bot_running, stop_bot, pc, loc, cyc, iters, interrupted, sz, ut>>

brokerVars == <<connected, positions, issued>>

dbVars == <<daily_investments, signals, trades>>

uiVars == <<bot_running, stop_bot, interrupted>>

InitLoc ==
    [ decision         |-> FALSE,
      no_yes           |-> FALSE,  \* history, kept until the branch's work
                                   \* starts: the guard's model call raised
                                   \* or answered without YES in its first
                                   \* words
      has_positions    |-> FALSE,
      signal           |-> "unset",
      signal_id        |-> 0,
      remaining_budget |-> FZero,
      currency_price   |-> FZero,
      lot_size         |-> FZero,
      trade_result     |-> [kind |-> "unset", order |-> 0],
      slept            |-> 0 ]

InitCyc ==
    [ budget_zero |-> FALSE,    \* the day's amount was at the ceiling at the start
      high_risk   |-> "unset",  \* what check_news_risk returned
      risk_closed |-> FALSE,    \* the guard invoked close_all_trades
      close_all   |-> FALSE,    \* the loop invoked close_all_trades
      sig_req     |-> FALSE,    \* get_trade_signal was called
      llm_failed  |-> FALSE,    \* the model call of get_trade_signal raised
      sig_saved   |-> FALSE,    \* a Signal record was persisted
      opened      |-> FALSE,    \* a position-opening order was sent
      last_sleep  |-> 0 ]       \* seconds of the last sleep call

\* ------------------------------------------------------------------------
\* db_service: the tables and their operations
\* ------------------------------------------------------------------------
RECURSIVE TradeIndex(_, _, _)
TradeIndex(tr, ticket, i) ==
    IF i > Len(tr) THEN 0
    ELSE IF tr[i].ticket = ticket THEN i
    ELSE TradeIndex(tr, ticket, i + 1)

\* index of the first Trade with the ticket, 0 when there is none
get_trade_by_ticket(tr, ticket) == TradeIndex(tr, ticket, 1)

\* by is "place" for process_trades and "poll" for get_positions_as_dict,
\* filled tells whether the broker confirmed a fill for the ticket; both are
\* history fields and no column of the table
create_trade(tr, ticket, signal_id, profit, by, filled) ==
    Append(tr, [ ticket      |-> ticket,
                 profit      |-> profit,
                 is_active   |-> TRUE,
                 price_close |-> "NULL",
                 time_close  |-> "NULL",
                 signal_id   |-> signal_id,
                 g_by        |-> by,
                 g_filled    |-> filled ])

\* the only key of trade_data the callers pass is profit
update_trade(tr, ticket, profit) ==
    IF get_trade_by_ticket(tr, ticket) = 0 THEN tr
    ELSE [tr EXCEPT ![get_trade_by_ticket(tr, ticket)].profit = profit]

\* a close that writes the closed trade as a new record
close_trade_inserts(tr, ticket, price_close, profit) ==
    Append(tr, [ ticket      |-> ticket,
                 profit      |-> profit,
                 is_active   |-> FALSE,
                 price_close |-> price_close,
                 time_close  |-> "utcnow",
                 signal_id   |-> 0,
                 g_by        |-> "close",
                 g_filled    |-> TRUE ])

\* a close that leaves the record marked active
close_trade_keeps_active(tr, ticket, price_close, profit) ==
    IF get_trade_by_ticket(tr, ticket) = 0 THEN tr
    ELSE [tr EXCEPT ![get_trade_by_ticket(tr, ticket)] =
              [@ EXCEPT !.price_close = price_close,
                        !.profit      = profit,
                        !.time_close  = "utcnow"]]

close_trade(tr, ticket, price_close, profit) ==
    IF get_trade_by_ticket(tr, ticket) = 0 THEN tr
    ELSE [tr EXCEPT ![get_trade_by_ticket(tr, ticket)] =
              [@ EXCEPT !.price_close = price_close,
                        !.profit      = profit,
                        !.time_close  = "utcnow",
                        !.is_active   = FALSE]]

\* g_confirmed: the broker confirmed an order placed from the signal
\* (a history field, no column of the table)
\* a Signal stored as executed from the start
create_signal_executed(sg, signal_type) ==
    Append(sg, [signal_type |-> signal_type, executed |-> TRUE,
                g_confirmed |-> FALSE])

create_signal(sg, signal_type) ==
    Append(sg, [signal_type |-> signal_type, executed |-> FALSE,
                g_confirmed |-> FALSE])

update_signal_executed(sg, signal_id, executed) ==
    IF signal_id \in 1..Len(sg)
    THEN [sg EXCEPT ![signal_id].executed = executed]
    ELSE sg

RECURSIVE DailyIndex(_, _, _)
DailyIndex(di, date_obj, i) ==
    IF i > Len(di) THEN 0
    ELSE IF di[i].date = date_obj THEN i
    ELSE DailyIndex(di, date_obj, i + 1)

\* the first DailyInvestment of the date: its amount, 0.0 when there is none
get_daily_investment(di, date_obj) ==
    IF DailyIndex(di, date_obj, 1) = 0 THEN FZero
    ELSE di[DailyIndex(di, date_obj, 1)].amount

\* an update that stores the amount passed in place of the sum
update_daily_investment_replaces(di, date_obj, amount) ==
    IF DailyIndex(di, date_obj, 1) # 0
    THEN [di EXCEPT ![DailyIndex(di, date_obj, 1)].amount = amount]
    ELSE Append(di, [date |-> date_obj, amount |-> amount])

\* an update that writes a new record at every call
update_daily_investment_inserts(di, date_obj, amount) ==
    Append(di, [date |-> date_obj, amount |-> amount])

update_daily_investment(di, date_obj, amount) ==
    IF DailyIndex(di, date_obj, 1) # 0
    THEN [di EXCEPT ![DailyIndex(di, date_obj, 1)].amount = FAdd(@, amount)]
    ELSE Append(di, [date |-> date_obj, amount |-> amount])

\* ------------------------------------------------------------------------
\* trade_manager: capital gate and position sizer
\* ------------------------------------------------------------------------
\* a gate that answers with the headroom of a day without investments
check_daily_limit_cached(di) == <<FALSE, DAILY_INVESTMENT_LIMIT>>

\* <<limit reached, remaining budget>>
check_daily_limit(di) ==
    IF FLe(DAILY_INVESTMENT_LIMIT, get_daily_investment(di, today))
    THEN <<TRUE, FZero>>
    ELSE <<FALSE, FSub(DAILY_INVESTMENT_LIMIT, get_daily_investment(di, today))>>

\* a sizer without the clamp to BASE_LOT
lot_size_unclamped(remaining_budget, currency_price) ==
    FDiv(remaining_budget, FMul(currency_price, LOT_NOTIONAL))

\* line 82: min(config.BASE_LOT, remaining_budget / (currency_price * 1000))
lot_size_of(remaining_budget, currency_price) ==
    FMin(BASE_LOT, FDiv(remaining_budget, FMul(currency_price, LOT_NOTIONAL)))

\* the amount process_trades adds to the day's DailyInvestment
committed_amount(lot_size, currency_price) ==
    FMul(FMul(lot_size, currency_price), LOT_NOTIONAL)

\* market_data.get_currency_price: info is what get_symbol_info returned
get_currency_price(info) ==
    IF ~info.ok THEN FALLBACK_PRICE
    ELSE FDiv(FAdd(info.bid, info.ask), FFromInt(2))

\* ------------------------------------------------------------------------
\* The MetaTrader5 terminal as the program sees it.  The session is one per
\* process: initialize/login open it, shutdown closes it for every caller,
\* and a request made while it is closed returns None.
\* ------------------------------------------------------------------------
\* initialize() and login() of a connect sequence
ConnectOutcomes == {"ok", "init_fail", "login_fail"}

\* what mt5.positions_get can return: None, or the open positions with
\* their floating profit, which the model holds at 0
NonePositions == [ok |-> FALSE, tickets |-> {}, profit |-> <<>>]

PositionsGet ==
    IF connected
    THEN {NonePositions,
          [ok |-> TRUE, tickets |-> positions, profit |-> [t \in positions |-> 0]]}
    ELSE {NonePositions}

\* an order of place_trade: symbol_info_tick returned None ("raise": the
\* attribute access fails), order_send returned None, a result with a
\* retcode other than DONE and order = 0, or a filled order
PlaceOutcomes ==
    IF ~connected THEN {"raise"}
    ELSE {"raise", "None", "rejected"}
           \cup (IF issued < MaxTickets THEN {"done"} ELSE {})

\* one position of close_all_trades: as above, and after a DONE result the
\* database update may fail
CloseOutcomes == {"raise", "None", "rejected", "done", "done_db_fail"}

\* the OrderSendResult of an order and its effect at the broker
SendResult(out) ==
    IF out = "done" THEN [kind |-> "done", order |-> issued + 1]
    ELSE [kind |-> out, order |-> 0]

OpenAtBroker(out) ==
    IF out = "done"
    THEN /\ positions' = positions \cup {issued + 1}
         /\ issued' = issued + 1
    ELSE UNCHANGED <<positions, issued>>

RECURSIVE SetToSeq(_)
SetToSeq(S) ==
    IF S = {} THEN <<>>
    ELSE LET x == CHOOSE y \in S : \A z \in S : y <= z
         IN  <<x>> \o SetToSeq(S \ {x})

\* trade_executor.close_all_trades over the positions it fetched: todo are
\* the tickets still to visit, outs the outcome of each, profit the profit of
\* each, att the tickets an order was sent for; the result is the broker's
\* positions, the trades table, those tickets and whether an exception left
\* the loop
RECURSIVE close_all_loop(_, _, _, _, _, _)
close_all_loop(todo, outs, profit, pos, tr, att) ==
    IF todo = <<>>
    THEN [positions |-> pos, trades |-> tr, attempted |-> att, raised |-> FALSE]
    ELSE LET t == Head(todo) IN
         CASE outs[t] = "raise" ->
                [positions |-> pos, trades |-> tr, attempted |-> att,
                 raised |-> TRUE]
           [] outs[t] \in {"None", "rejected"} ->
                close_all_loop(Tail(todo), outs, profit, pos, tr, att \cup {t})
           [] outs[t] = "done_db_fail" ->
                close_all_loop(Tail(todo), outs, profit, pos \ {t}, tr,
                               att \cup {t})
           [] OTHER ->
                close_all_loop(Tail(todo), outs, profit, pos \ {t},
                               close_trade(tr, t, "tick", profit[t]),
                               att \cup {t})

\* trade_executor.close_all_trades from its positions_get on
close_all_trades(got, outs) ==
    IF ~got.ok
    THEN [positions |-> positions, trades |-> trades, attempted |-> {},
          raised |-> TRUE]
    ELSE close_all_loop(SetToSeq(got.tickets), outs, got.profit, positions,
                        trades, {})

\* a poll that stores every position it sees as a new record
RECURSIVE get_positions_as_dict_inserts(_, _, _, _)
get_positions_as_dict_inserts(todo, failing, profit, tr) ==
    IF todo = <<>> THEN tr
    ELSE get_positions_as_dict_inserts(Tail(todo), failing, profit,
             create_trade(tr, Head(todo), 0, profit[Head(todo)], "poll", TRUE))

\* market_data.get_positions_as_dict: the upsert of every position seen;
\* failing are the tickets whose database access raises (caught), profit the
\* profit the terminal reports for each
RECURSIVE get_positions_as_dict(_, _, _, _)
get_positions_as_dict(todo, failing, profit, tr) ==
    IF todo = <<>> THEN tr
    ELSE LET t == Head(todo) IN
         get_positions_as_dict(Tail(todo), failing, profit,
             IF t \in failing THEN tr
             ELSE IF get_trade_by_ticket(tr, t) # 0
                  THEN update_trade(tr, t, profit[t])
             ELSE create_trade(tr, t, 0, profit[t], "poll", TRUE))

\* ------------------------------------------------------------------------
\* Initial state: the process has started, nothing runs yet
\* ------------------------------------------------------------------------
\* no function is being applied in isolation
UtIdle == [pc |-> "idle"]

SizerIdle == [pc |-> "idle", invested |-> FZero, remaining_budget |-> FZero,
              currency_price |-> FZero, lot_size |-> FZero, amount |-> FZero,
              stored |-> FZero]

MainInit(m) ==
    /\ mode = m
    /\ connected = FALSE
    /\ positions = {}
    /\ issued = 0
    /\ daily_investments = <<>>
    /\ signals = <<>>
    /\ trades = <<>>
    /\ bot_running = FALSE
    /\ stop_bot = FALSE
    /\ pc = [w \in Workers |-> IF m = "cli" /\ w = 1 THEN "setup" ELSE "off"]
    /\ loc = [w \in Workers |-> InitLoc]
    /\ cyc = [w \in Workers |-> InitCyc]
    /\ iters = 0
    /\ interrupted = FALSE

Init ==
    /\ \E m \in {"cli", "ui"} : MainInit(m)
    /\ sz = SizerIdle
    /\ ut = UtIdle

\* ------------------------------------------------------------------------
\* App.py: the Start and Stop buttons
\* ------------------------------------------------------------------------
Started == {w \in Workers : pc[w] # "off"}

StartBot ==
    /\ mode = "ui"
    /\ ~bot_running
    /\ Cardinality(Started) < MaxWorkers
    /\ bot_running' = TRUE
    /\ stop_bot' = FALSE
    /\ pc' = [pc EXCEPT ![Cardinality(Started) + 1] = "setup"]
    /\ UNCHANGED <<mode, brokerVars, dbVars, loc, cyc, iters, interrupted, sz, ut>>

\* bot_thread.join(timeout=2) returns whether or not the worker has ended
StopBot ==
    /\ mode = "ui"
    /\ bot_running
    /\ bot_running' = FALSE
    /\ stop_bot' = TRUE
    /\ UNCHANGED <<mode, brokerVars, dbVars, pc, loc, cyc, iters, interrupted, sz, ut>>

\* ------------------------------------------------------------------------
\* The driving loop: TradingBot.run (cli) and bot_thread_function (ui)
\* ------------------------------------------------------------------------
InIteration == {"risk", "rg_act", "ca", "pt", "pt_place", "pt_record"}

InLoop == InIteration \cup {"loop", "sleep", "err"}

\* a loop whose iteration errors end the worker
OnErrorStops == "done"

\* where the handler of the loop's "except Exception" leads
OnError == "err"

\* an exception leaves the iteration's work
Raise(w) ==
    /\ pc' = [pc EXCEPT ![w] = OnError]
    /\ loc' = [loc EXCEPT ![w] = InitLoc]

\* the work of the iteration returned normally
Return(w) ==
    /\ pc' = [pc EXCEPT ![w] = "sleep"]
    /\ loc' = [loc EXCEPT ![w] = InitLoc]

\* TradingBot.setup; a failure is fatal, the cli then runs its finally block
Setup(w) ==
    /\ pc[w] = "setup"
    /\ \E c \in ConnectOutcomes :
         /\ pc' = [pc EXCEPT ![w] = IF c = "ok" THEN "loop" ELSE "done"]
         /\ connected' = CASE c = "ok" -> TRUE
                           [] c = "init_fail" -> connected
                           [] OTHER -> (mode = "ui")
    /\ UNCHANGED <<mode, positions, issued, dbVars, uiVars, loc, cyc, iters, sz, ut>>

\* the loop condition: "while True" (cli), "while not stop_bot.is_set()" (ui)
LoopExits == mode = "ui" /\ stop_bot

LoopHead(w) ==
    /\ pc[w] = "loop"
    /\ IF LoopExits
       THEN /\ pc' = [pc EXCEPT ![w] = "done"]
            /\ cyc' = [cyc EXCEPT ![w] = InitCyc]
            /\ UNCHANGED iters
       ELSE /\ iters < MaxIters
            /\ iters' = iters + 1
            /\ pc' = [pc EXCEPT ![w] = "risk"]
            /\ cyc' = [cyc EXCEPT ![w] =
                  [InitCyc EXCEPT !.budget_zero =
                       check_daily_limit(daily_investments)[1]]]
    /\ UNCHANGED <<mode, brokerVars, dbVars, uiVars, loc, sz, ut>>

\* Ctrl-C in the cli: run's "except KeyboardInterrupt", then its finally
KeyboardInterrupt ==
    /\ mode = "cli"
    /\ pc[1] \in InLoop
    /\ pc' = [pc EXCEPT ![1] = "done"]
    /\ loc' = [loc EXCEPT ![1] = InitLoc]
    /\ cyc' = [cyc EXCEPT ![1] = InitCyc]
    /\ connected' = FALSE
    /\ interrupted' = TRUE
    /\ UNCHANGED <<mode, positions, issued, dbVars, bot_running, stop_bot, iters, sz, ut>>

\* the sleep between iterations: one time.sleep(CHECK_INTERVAL_SECONDS) in
\* the cli, one-second sleeps with a look at the stop flag in the ui
Sleep(w) ==
    /\ pc[w] = "sleep"
    /\ IF mode = "cli"
       THEN /\ pc' = [pc EXCEPT ![w] = "loop"]
            /\ cyc' = [cyc EXCEPT ![w].last_sleep = CheckInterval]
            /\ UNCHANGED loc
       ELSE IF stop_bot \/ loc[w].slept = CheckInterval
            THEN /\ pc' = [pc EXCEPT ![w] = "loop"]
                 /\ loc' = [loc EXCEPT ![w].slept = 0]
                 /\ UNCHANGED cyc
            ELSE /\ loc' = [loc EXCEPT ![w].slept = @ + 1]
                 /\ cyc' = [cyc EXCEPT ![w].last_sleep = SLEEP_STEP]
                 /\ UNCHANGED pc
    /\ UNCHANGED <<mode, brokerVars, dbVars, uiVars, iters, sz, ut>>

\* the handler of an iteration's exception: time.sleep(60) / time.sleep(10)
ErrorSleep(w) ==
    /\ pc[w] = "err"
    /\ pc' = [pc EXCEPT ![w] = "loop"]
    /\ cyc' = [cyc EXCEPT ![w].last_sleep =
                   IF mode = "cli" THEN ERROR_SLEEP_CLI ELSE ERROR_SLEEP]
    /\ UNCHANGED <<mode, brokerVars, dbVars, uiVars, loc, iters, sz, ut>>

\* ------------------------------------------------------------------------
\* risk_guard.check_news_risk
\* ------------------------------------------------------------------------
\* the words of the answer the guard looks at
FIRST_WORDS == 3

YES == <<"Y", "E", "S">>

\* what the guard's model call gives: an exception, or the content of the
\* first choice (the empty text also stands for an answer without choices)
RiskReplies ==
    { [raised |-> TRUE,  content |-> <<>>],
      [raised |-> FALSE, content |-> <<>>],
      [raised |-> FALSE, content |-> <<"Y", "e", "s", ".">>],
      [raised |-> FALSE, content |-> <<"n", "o">>],
      [raised |-> FALSE, content |-> <<"n", "o", ",", " ", "y", "e", "s">>],
      [raised |-> FALSE, content |-> <<"a", " ", "b", " ", "c", " ", "y", "e", "s">>] }

\* a guard for which a failed model call means high risk
risk_result_failsafe(reply) ==
    IF reply.raised THEN YES ELSE upper(reply.content)

\* lines 30-40: content.strip().upper(), "NO" when the call raised; the
\* strip is subsumed by the split that follows
risk_result(reply) ==
    IF reply.raised THEN <<"N", "O">> ELSE upper(reply.content)

\* lines 43-44: any("YES" in word for word in result.split()[:3])
risk_decision(result) ==
    \E i \in 1..Len(Slice(split(result), FIRST_WORDS)) :
        In(YES, Slice(split(result), FIRST_WORDS)[i])

\* the guard's verdict: "raise" is an exception outside the inner handlers
\* (the headlines fetch), answered by False; otherwise the model is asked
RiskAnswers == {[fetched |-> FALSE, reply |-> [raised |-> TRUE, content |-> <<>>]]}
               \cup [fetched : {TRUE}, reply : RiskReplies]

HighRisk(decision) == IF decision THEN "yes" ELSE "no"

\* a loop that evaluates trades on high risk and closes otherwise
BranchInverted(high_risk) == IF high_risk THEN "pt" ELSE "ca"

\* the loop's branch on the value check_news_risk returned
Branch(high_risk) == IF high_risk THEN "ca" ELSE "pt"

\* history: the answer was obtained and has YES inside one of its first
\* FIRST_WORDS words, read off the characters: a word starts where a
\* character that is no whitespace follows the start or a whitespace
YesInFirstWords(reply) ==
    /\ ~reply.raised
    /\ \E i \in 1..(Len(reply.content) - 2) :
         /\ reply.content[i] \in {"y", "Y"}
         /\ reply.content[i + 1] \in {"e", "E"}
         /\ reply.content[i + 2] \in {"s", "S"}
         /\ Cardinality({j \in 1..i :
                /\ reply.content[j] \notin Whitespace
                /\ (j = 1 \/ reply.content[j - 1] \in Whitespace)}) <= FIRST_WORDS

\* the guard's decision and the history of each answer
RiskVerdict ==
    [reply \in RiskReplies |->
        [decision |-> risk_decision(risk_result(reply)),
         no_yes   |-> ~YesInFirstWords(reply)]]

AfterRisk(w, high_risk, no_yes) ==
    /\ pc' = [pc EXCEPT ![w] = Branch(high_risk)]
    /\ cyc' = [cyc EXCEPT ![w].high_risk = HighRisk(high_risk)]
    /\ loc' = [loc EXCEPT ![w].no_yes = no_yes]

\* headlines, the model's answer, the connection and the positions read
RiskCheck(w) ==
    /\ pc[w] = "risk"
    /\ \E a \in RiskAnswers, c \in ConnectOutcomes :
         IF ~a.fetched
         THEN /\ AfterRisk(w, FALSE, FALSE)
              /\ UNCHANGED connected
         ELSE LET decision == RiskVerdict[a.reply].decision
                  no_yes   == RiskVerdict[a.reply].no_yes
              IN
              IF c # "ok"
              THEN /\ AfterRisk(w, decision, no_yes)
                   /\ connected' = (c = "init_fail" /\ connected)
              ELSE /\ connected' = TRUE
                   /\ \E seen \in {{}, positions} :
                        loc' = [loc EXCEPT ![w].decision = decision,
                                           ![w].no_yes = no_yes,
                                           ![w].has_positions = (seen # {})]
                   /\ pc' = [pc EXCEPT ![w] = "rg_act"]
                   /\ UNCHANGED cyc
    /\ UNCHANGED <<mode, positions, issued, dbVars, uiVars, iters, sz, ut>>

\* "if decision: if positions: close_all_trades() elif not positions:
\* place_trade('BUY')"
RiskAction(decision, has_positions) ==
    IF decision THEN (IF has_positions THEN "close" ELSE "none")
    ELSE IF ~has_positions THEN "buy"
    ELSE "none"

\* the action on the decision (its exceptions are caught), the shutdown of
\* the session in the finally block, and the return to the loop
RiskAct(w) ==
    /\ pc[w] = "rg_act"
    /\ LET act == RiskAction(loc[w].decision, loc[w].has_positions) IN
       /\ CASE act = "buy" ->
                 \E out \in PlaceOutcomes :
                    /\ OpenAtBroker(out)
                    /\ cyc' = [cyc EXCEPT
                          ![w].opened = @ \/ out # "raise",
                          ![w].high_risk = HighRisk(loc[w].decision)]
                    /\ UNCHANGED dbVars
            [] act = "close" ->
                 \E got \in PositionsGet, outs \in [positions -> CloseOutcomes] :
                    LET r == close_all_trades(got, outs) IN
                    /\ positions' = r.positions
                    /\ trades' = r.trades
                    /\ cyc' = [cyc EXCEPT
                          ![w].high_risk = HighRisk(loc[w].decision),
                          ![w].risk_closed = TRUE]
                    /\ UNCHANGED <<issued, daily_investments, signals>>
            [] OTHER ->
                 /\ cyc' = [cyc EXCEPT
                          ![w].high_risk = HighRisk(loc[w].decision)]
                 /\ UNCHANGED <<positions, issued, dbVars>>
       /\ connected' = FALSE
       /\ pc' = [pc EXCEPT ![w] = Branch(loc[w].decision)]
       /\ loc' = [loc EXCEPT ![w] = [InitLoc EXCEPT !.no_yes = loc[w].no_yes]]
    /\ UNCHANGED <<mode, uiVars, iters, sz, ut>>

\* ------------------------------------------------------------------------
\* The loop's high-risk branch: trade_executor.close_all_trades()
\* ------------------------------------------------------------------------
CloseAll(w) ==
    /\ pc[w] = "ca"
    /\ \E got \in PositionsGet, outs \in [positions -> CloseOutcomes] :
         LET r == close_all_trades(got, outs) IN
         /\ positions' = r.positions
         /\ trades' = r.trades
         /\ IF r.raised THEN Raise(w) ELSE Return(w)
    /\ cyc' = [cyc EXCEPT ![w].close_all = TRUE]
    /\ UNCHANGED <<mode, connected, issued, daily_investments, signals,
                   uiVars, iters, sz, ut>>

\* ------------------------------------------------------------------------
\* The loop's other branch: TradeManager.process_trades
\* ------------------------------------------------------------------------
BUY == <<"B", "U", "Y">>

SELL == <<"S", "E", "L", "L">>

\* contents of the language model's answer to the signal prompt
Answers ==
    { <<"b", "u", "y">>,
      <<"S", "e", "l", "l", ".">>,
      <<"s", "e", "l", "l", " ", "o", "r", " ", "b", "u", "y">>,
      <<"h", "o", "l", "d">> }

\* an extraction that looks for SELL first
get_trade_signal_sell_first(content) ==
    IF In(SELL, upper(content)) THEN "SELL"
    ELSE IF In(BUY, upper(content)) THEN "BUY"
    ELSE "NO TRADE"

\* signal_engine.get_trade_signal from the content of the answer on:
\* result = content.upper() and the decision extracted from it
get_trade_signal(content) ==
    IF In(BUY, upper(content)) THEN "BUY"
    ELSE IF In(SELL, upper(content)) THEN "SELL"
    ELSE "NO TRADE"

\* the signal read from each answer
SignalOf == [content \in Answers |-> get_trade_signal(content)]

\* how far the first half of process_trades gets: get_symbol_info returned
\* {} (KeyError), the model call raised, the database raised in create_signal
\* or in get_daily_investment, or nothing failed
EvalOutcomes == {"info_fail", "llm_fail", "signal_db_fail", "gate_db_fail", "ok"}

\* lines 33-82: the poll of the positions, the market data, the signal and
\* its record, the capital gate, the price and the lot size.  Every helper
\* that talks to the terminal connects and shuts the session down again.
Evaluate(w) ==
    /\ pc[w] = "pt"
    /\ connected' = FALSE
    /\ \E seen \in {{}, positions} : \E failing \in SUBSET seen :
         trades' = get_positions_as_dict(SetToSeq(seen), failing,
                                         [t \in seen |-> 0], trades)
    /\ LET gate == check_daily_limit(daily_investments) IN
       \E e \in EvalOutcomes :
         IF e \in {"info_fail", "llm_fail", "signal_db_fail"}
         THEN /\ Raise(w)
              /\ cyc' = [cyc EXCEPT ![w].sig_req = (e # "info_fail"),
                                    ![w].llm_failed = (e = "llm_fail")]
              /\ UNCHANGED signals
         ELSE \E result \in Answers :
              LET signal == SignalOf[result]
                  saved  == create_signal(signals, signal)
              IN
              /\ signals' = saved
              /\ cyc' = [cyc EXCEPT ![w].sig_req = TRUE, ![w].sig_saved = TRUE]
              /\ IF signal = "NO TRADE" THEN Return(w)
                 ELSE IF e = "gate_db_fail" THEN Raise(w)
                 ELSE IF gate[1] THEN Return(w)
                 ELSE \E info \in {EmptyInfo} \cup Quotes :
                      LET price == get_currency_price(info) IN
                      /\ pc' = [pc EXCEPT ![w] = "pt_place"]
                      /\ loc' = [loc EXCEPT ![w] =
                            [InitLoc EXCEPT
                               !.signal = signal,
                               !.signal_id = Len(saved),
                               !.remaining_budget = gate[2],
                               !.currency_price = price,
                               !.lot_size = lot_size_of(gate[2], price)]]
    /\ UNCHANGED <<mode, positions, issued, daily_investments, uiVars, iters, sz, ut>>

\* line 85: trade_executor.place_trade(signal, lot_size)
PlaceTrade(w) ==
    /\ pc[w] = "pt_place"
    /\ \E out \in PlaceOutcomes :
         /\ OpenAtBroker(out)
         /\ IF out = "raise"
            THEN /\ Raise(w)
                 /\ UNCHANGED <<cyc, signals>>
            ELSE /\ pc' = [pc EXCEPT ![w] = "pt_record"]
                 /\ loc' = [loc EXCEPT ![w].trade_result = SendResult(out)]
                 /\ cyc' = [cyc EXCEPT ![w].opened = TRUE]
                 /\ signals' = [signals EXCEPT ![loc[w].signal_id].g_confirmed =
                                    (out = "done")]
    /\ UNCHANGED <<mode, connected, daily_investments, trades, uiVars, iters, sz, ut>>

\* "if trade_result and hasattr(trade_result, 'order')"
StoresTrade(trade_result) == trade_result.kind # "None"

\* lines 88-106: the day's amount, the executed flag, the trade record; a
\* database error at any of them leaves the earlier writes in place
RecordOutcomes == {"daily_db_fail", "executed_db_fail", "trade_db_fail", "ok"}

RecordTrade(w) ==
    /\ pc[w] = "pt_record"
    /\ LET amount == committed_amount(loc[w].lot_size, loc[w].currency_price)
           ticket == loc[w].trade_result.order
           added  == update_daily_investment(daily_investments, today, amount)
       IN
       \E r \in RecordOutcomes :
         IF r = "daily_db_fail"
         THEN /\ Raise(w)
              /\ UNCHANGED dbVars
         ELSE
         /\ daily_investments' = added
         /\ IF r = "executed_db_fail"
            THEN /\ Raise(w)
                 /\ UNCHANGED <<signals, trades>>
            ELSE
            /\ signals' = update_signal_executed(signals, loc[w].signal_id, TRUE)
            /\ IF ~StoresTrade(loc[w].trade_result)
               THEN /\ Return(w)
                    /\ UNCHANGED trades
               ELSE IF r = "trade_db_fail"
                       \/ get_trade_by_ticket(trades, ticket) # 0
               THEN /\ Raise(w)
                    /\ UNCHANGED trades
               ELSE /\ Return(w)
                    /\ trades' = create_trade(trades, ticket, loc[w].signal_id,
                                     0, "place",
                                     loc[w].trade_result.kind = "done")
    /\ UNCHANGED <<mode, brokerVars, uiVars, cyc, iters, sz, ut>>

\* ------------------------------------------------------------------------
\* The program
\* ------------------------------------------------------------------------
Step(w) ==
    \/ Setup(w)
    \/ LoopHead(w)
    \/ RiskCheck(w)
    \/ RiskAct(w)
    \/ CloseAll(w)
    \/ Evaluate(w)
    \/ PlaceTrade(w)
    \/ RecordTrade(w)
    \/ Sleep(w)
    \/ ErrorSleep(w)

Next ==
    \/ StartBot
    \/ StopBot
    \/ KeyboardInterrupt
    \/ \E w \in Workers : Step(w)

Spec == Init /\ [][Next]_vars

TypeOK ==
    /\ mode \in {"cli", "ui"}
    /\ connected \in BOOLEAN
    /\ positions \subseteq 1..issued
    /\ issued \in 0..MaxTickets
    /\ \A i \in 1..Len(daily_investments) : daily_investments[i].date = today
    /\ \A i \in 1..Len(signals) :
          signals[i].signal_type \in {"BUY", "SELL", "NO TRADE"}
    /\ \A i \in 1..Len(trades) : trades[i].ticket \in 0..issued
    /\ bot_running \in BOOLEAN
    /\ stop_bot \in BOOLEAN
    /\ \A w \in Workers :
          pc[w] \in {"off", "setup", "done"} \cup InLoop
    /\ iters \in 0..MaxIters
    /\ interrupted \in BOOLEAN
    /\ sz = SizerIdle
    /\ ut = UtIdle

\* ------------------------------------------------------------------------
\* The capital gate and the position sizer as functions of their inputs:
\* lines 74-89 of process_trades for any stored amount of the day and any
\* price, the rest of the program standing still
\* ------------------------------------------------------------------------
\* the day's stored amounts tried: 0, 1, ..., MaxInvested
MaxInvested == 21

\* the prices tried: the fallback 1.0 and the mid prices 1.1, 2.1, 2.5, 150.01
SizerPrices ==
    {FALLBACK_PRICE, FDec(11, 10), FDec(21, 10), FDec(25, 10), FDec(15001, 100)}

SizerInit ==
    /\ MainInit("ui")
    /\ ut = UtIdle
    /\ \E n \in 0..MaxInvested, p \in SizerPrices :
         sz = [SizerIdle EXCEPT !.pc = "gate", !.invested = FFromInt(n),
                                !.currency_price = p]

\* limit_reached, remaining_budget = self.check_daily_limit()
SizerGate ==
    /\ sz.pc = "gate"
    /\ LET gate == check_daily_limit(<<[date |-> today, amount |-> sz.invested]>>) IN
       sz' = [sz EXCEPT !.pc = IF gate[1] THEN "refused" ELSE "size",
                        !.remaining_budget = gate[2]]

\* the lot size, the amount added to the day's DailyInvestment and the
\* amount the day's record then holds
SizerSize ==
    /\ sz.pc = "size"
    /\ LET lot    == lot_size_of(sz.remaining_budget, sz.currency_price)
           amount == committed_amount(lot, sz.currency_price)
       IN
       sz' = [sz EXCEPT !.pc = "sized",
                        !.lot_size = lot,
                        !.amount = amount,
                        !.stored = get_daily_investment(
                            update_daily_investment(
                               <<[date |-> today, amount |-> sz.invested]>>,
                               today, amount), today)]

SizerNext ==
    \/ SizerGate /\ UNCHANGED <<mode, brokerVars, dbVars, uiVars, pc, loc, cyc, iters, ut>>
    \/ SizerSize /\ UNCHANGED <<mode, brokerVars, dbVars, uiVars, pc, loc, cyc, iters, ut>>

SpecSizer == SizerInit /\ [][SizerNext]_vars

\* ------------------------------------------------------------------------
\* Properties
\* ------------------------------------------------------------------------
\* the UI has set the stop flag since worker w was started
StopAsked(w) ==
    /\ mode = "ui"
    /\ w \in Started
    /\ (w < Cardinality(Started) \/ ~bot_running)

\* C1: in a cycle that began with the day's amount at or above the ceiling
\* (remaining budget zero), no order is submitted to the broker
C1_NoOrderWhenBudgetZero ==
    \A w \in Workers : cyc[w].budget_zero => ~cyc[w].opened

\* a cycle that began with no budget left and in which the risk guard sent
\* its BUY
C1_OrderWithoutBudget ==
    \E w \in Workers :
       /\ cyc[w].budget_zero
       /\ cyc[w].opened
       /\ cyc[w].high_risk = "no"
       /\ ~cyc[w].sig_req

\* C2: the lot size times the price times the multiplier of the committed
\* amount is at most the remaining budget, and the lot size is at most the
\* base lot
C2_SizerWithinBudget ==
    sz.pc = "sized" =>
       /\ FLe(FMul(FMul(sz.lot_size, sz.currency_price), LOT_NOTIONAL),
              sz.remaining_budget)
       /\ FLe(sz.lot_size, BASE_LOT)

\* remaining budget 9.0 at price 1.1: the amount committed exceeds the budget
C2_Overcommitted ==
    /\ sz.pc = "sized"
    /\ sz.remaining_budget = FFromInt(9)
    /\ sz.currency_price = FDec(11, 10)
    /\ FLt(sz.remaining_budget, sz.amount)

C4_GateReadsStoredAmount ==
    [][\A w \in Workers :
         (pc[w] = "pt" /\ pc'[w] = "pt_place") =>
            LET amount == IF daily_investments = <<>> THEN FZero
                          ELSE daily_investments[1].amount
            IN  /\ FLt(amount, DAILY_INVESTMENT_LIMIT)
                /\ loc'[w].remaining_budget = FSub(DAILY_INVESTMENT_LIMIT, amount)
                /\ FLt(FZero, loc'[w].remaining_budget)]_vars

\* a cycle passed the gate with part of the day's ceiling already invested
C4_GatePassedAfterInvestment ==
    \E w \in Workers :
       /\ pc[w] = "pt_place"
       /\ daily_investments # <<>>
       /\ FLt(FZero, daily_investments[1].amount)
       /\ loc[w].remaining_budget =
             FSub(DAILY_INVESTMENT_LIMIT, daily_investments[1].amount)

\* C5: a signal is marked executed only if the broker confirmed an order
\* placed from it
C5_ExecutedOnlyIfConfirmed ==
    \A i \in 1..Len(signals) : signals[i].executed => signals[i].g_confirmed

\* a signal marked executed whose order the broker did not fill, with the
\* worker back in its sleep
C5_ExecutedUnconfirmed ==
    \E i \in 1..Len(signals), w \in Workers :
       /\ signals[i].executed
       /\ ~signals[i].g_confirmed
       /\ pc[w] = "sleep"
       /\ cyc[w].opened

\* C6: a Trade record written by the placement path belongs to an order the
\* broker confirmed as filled
C6_TradeOnlyIfFilled ==
    \A i \in 1..Len(trades) : trades[i].g_by = "place" => trades[i].g_filled

\* a Trade record with ticket 0, written for a rejected order
C6_TradeOfRejectedOrder ==
    \E i \in 1..Len(trades) :
       /\ trades[i].g_by = "place"
       /\ ~trades[i].g_filled
       /\ trades[i].ticket = 0

\* C7: a worker leaves the work of an iteration only to the sleep or to the
\* error handler; both lead back to the loop head; the loop head starts an
\* iteration with the risk check; and a worker in the loop ends only after a
\* stop request (the stop flag in the ui, Ctrl-C in the cli)
C7_ErrorsCaughtLoopContinues ==
    [][\A w \in Workers :
         /\ (pc[w] \in InIteration /\ pc'[w] \notin InIteration)
               => (pc'[w] \in {"sleep", "err"} \/ interrupted')
         /\ (pc[w] \in {"sleep", "err"} /\ pc'[w] # pc[w])
               => (pc'[w] = "loop" \/ interrupted')
         /\ (pc[w] = "loop" /\ pc'[w] # "loop")
               => (pc'[w] \in {"risk", "done"})
         /\ (pc[w] \in InLoop /\ pc'[w] = "done")
               => ((mode = "ui" /\ stop_bot /\ pc[w] = "loop") \/ interrupted')]_vars

\* a worker has slept after an error and is at the loop head again, free to
\* start an iteration
C7_BackAfterError ==
    \E w \in Workers :
       /\ pc[w] = "loop"
       /\ cyc[w].last_sleep \in {ERROR_SLEEP, ERROR_SLEEP_CLI}
       /\ iters < MaxIters
       /\ ~LoopExits

\* C8: at most one worker is inside an iteration
C8_OneIterationAtATime ==
    Cardinality({w \in Workers : pc[w] \in InIteration}) <= 1

\* both workers are inside an iteration
C8_TwoIterations ==
    /\ pc[1] \in InIteration
    /\ pc[2] \in InIteration

\* C9: a worker whose stop was requested starts no iteration, and every
\* sleep of a ui worker is a step of SLEEP_STEP seconds
C9_StopEndsWorker ==
    [][\A w \in Workers :
         /\ (StopAsked(w) /\ pc[w] = "loop") => pc'[w] # "risk"
         /\ mode = "ui" => cyc'[w].last_sleep <= SLEEP_STEP]_vars

\* a worker whose stop was requested is in an iteration it started afterwards
C9_IterationAfterStop ==
    /\ pc[1] = "risk"
    /\ StopAsked(1)
    /\ stop_bot = FALSE
    /\ pc[2] # "off"

\* C10: in a cycle whose risk check returned true no signal is requested or
\* saved and no opening order is sent, and once the cycle's work is over
\* close_all_trades has been invoked
C10_HighRiskOnlyCloses ==
    \A w \in Workers :
       cyc[w].high_risk = "yes" =>
          /\ ~cyc[w].sig_req
          /\ ~cyc[w].sig_saved
          /\ ~cyc[w].opened
          /\ pc[w] = "ca" \/ cyc[w].close_all

\* a high-risk cycle whose close_all_trades has run
C10_HighRiskClosed ==
    \E w \in Workers :
       /\ cyc[w].high_risk = "yes"
       /\ cyc[w].close_all
       /\ pc[w] = "sleep"

\* C11: when the risk check's model call raised, or answered without YES
\* in its first few words, check_news_risk returns False and does not close;
\* and in a cycle in which it returned False close_all_trades is not invoked,
\* neither by the guard nor by the loop
C11_NoYesNoClose ==
    \A w \in Workers :
        /\ loc[w].no_yes =>
              /\ cyc[w].high_risk # "yes"
              /\ (pc[w] = "rg_act" =>
                     RiskAction(loc[w].decision, loc[w].has_positions) # "close")
              /\ (pc[w] # "rg_act" => cyc[w].high_risk = "no")
        /\ cyc[w].high_risk = "no" =>
              /\ pc[w] # "ca"
              /\ ~cyc[w].close_all
              /\ ~cyc[w].risk_closed

\* the guard got no YES while positions were open and returned False to the
\* loop, which goes on to evaluate trades
C11_NoYesReturnedFalse ==
    \E w \in Workers :
        /\ loc[w].no_yes
        /\ cyc[w].high_risk = "no"
        /\ pc[w] = "pt"
        /\ positions # {}

\* C12: when the model call of get_trade_signal fails, the signal is taken
\* to be NO TRADE and nothing is raised: the cycle does not end in the loop's
\* error handler, and it sends no order after the failure
C12_SignalFailureIsNoTrade ==
    \A w \in Workers :
        cyc[w].llm_failed =>
            /\ pc[w] \notin {"err", "pt_place", "pt_record"}
            /\ cyc[w].last_sleep \notin {ERROR_SLEEP, ERROR_SLEEP_CLI}

\* the model call failed and the iteration is in the error handler, with no
\* Signal record of the cycle
C12_SignalFailureRaised ==
    \E w \in Workers :
        /\ cyc[w].llm_failed
        /\ pc[w] = "err"
        /\ ~cyc[w].sig_saved

\* ------------------------------------------------------------------------
\* get_trade_signal as a function of the answer's content, the rest of the
\* program standing still
\* ------------------------------------------------------------------------
\* pieces the answers tried are made of
AnswerChunks ==
    { <<"B", "U", "Y">>,
      <<"b", "u", "y">>,
      <<"S", "e", "l", "l">>,
      <<"S", "E", "L", "L">>,
      <<"h", "o", "l", "d">>,
      <<" ">>,
      <<"b", "u">>,
      <<"y", ",">> }

\* pieces per answer
MaxChunks == 3

\* the texts of the written examples
AnswerExamples ==
    { <<"I", " ", "t", "h", "i", "n", "k", " ", "w", "e", " ", "s", "h", "o", "u", "l", "d", " ", "B", "U", "Y", " ", "n", "o", "w">>,
      <<"D", "e", "f", "i", "n", "i", "t", "e", "l", "y", " ", "S", "E", "L", "L", " ", "h", "e", "r", "e">>,
      <<"u", "n", "c", "l", "e", "a", "r", ",", " ", "m", "a", "y", "b", "e", " ", "h", "o", "l", "d">> }

RECURSIVE Concat(_)
Concat(chunks) ==
    IF chunks = <<>> THEN <<>> ELSE Head(chunks) \o Concat(Tail(chunks))

SignalInit ==
    /\ MainInit("ui")
    /\ sz = SizerIdle
    /\ \/ \E n \in 0..MaxChunks : \E chunks \in [1..n -> AnswerChunks] :
            ut = [pc |-> "answer", content |-> Concat(chunks), signal |-> "unset"]
       \/ \E content \in AnswerExamples :
            ut = [pc |-> "answer", content |-> content, signal |-> "unset"]

\* result = response.choices[0].message.content.upper() and the extraction
SignalParse ==
    /\ ut.pc = "answer"
    /\ ut' = [ut EXCEPT !.pc = "parsed", !.signal = get_trade_signal(ut.content)]
    /\ UNCHANGED <<mode, brokerVars, dbVars, uiVars, pc, loc, cyc, iters, sz>>

\* the answer is handed back to the caller
SignalReturn ==
    /\ ut.pc = "parsed"
    /\ ut' = [ut EXCEPT !.pc = "returned"]
    /\ UNCHANGED <<mode, brokerVars, dbVars, uiVars, pc, loc, cyc, iters, sz>>

SignalNext ==
    \/ SignalParse
    \/ SignalReturn

SpecSignal == SignalInit /\ [][SignalNext]_vars

\* the letters of word occur, in either case, side by side in the content
C13_Mentions(content, word) ==
    \E i \in 1..(Len(content) - Len(word) + 1) :
        \A k \in 1..Len(word) :
            \/ content[i + k - 1] = word[k]
            \/ /\ LetterIndex(content[i + k - 1], 1) # 0
               /\ UpperCase[LetterIndex(content[i + k - 1], 1)] = word[k]

\* C13: the signal is BUY when the answer mentions BUY in any case, with or
\* without SELL; SELL when it mentions SELL and not BUY; NO TRADE otherwise,
\* whatever text surrounds the token
C13_BuyBeforeSell ==
    ut.pc \in {"parsed", "returned"} =>
        ut.signal = IF C13_Mentions(ut.content, BUY) THEN "BUY"
                    ELSE IF C13_Mentions(ut.content, SELL) THEN "SELL"
                    ELSE "NO TRADE"

\* an answer that mentions both tokens, SELL first, was read as BUY
C13_BothReadAsBuy ==
    /\ ut.pc = "parsed"
    /\ ut.signal = "BUY"
    /\ C13_Mentions(ut.content, SELL)
    /\ ut.content[1] \in {"s", "S"}

\* C14: every cycle whose risk check returned False persists exactly one
\* Signal record: the step that takes a worker through the first half of
\* process_trades (and not out of the program by Ctrl-C) adds one record
C14_OneSignalPerCycle ==
    [][\A w \in Workers :
          (pc[w] = "pt" /\ pc'[w] \notin {"pt", "done"}) =>
              Len(signals') = Len(signals) + 1]_vars

\* the risk check returned False, get_symbol_info gave the empty dictionary,
\* and the cycle ended in the error handler before the model was asked,
\* without a Signal record
C14_CycleWithoutSignal ==
    \E w \in Workers :
        /\ cyc[w].high_risk = "no"
        /\ pc[w] = "err"
        /\ ~cyc[w].sig_req
        /\ ~cyc[w].sig_saved
        /\ signals = <<>>

\* ------------------------------------------------------------------------
\* close_all_trades as a function of the open positions and of what the
\* terminal and the database answer for each, the rest standing still
\* ------------------------------------------------------------------------
\* positions open when close_all_trades is called
MaxOpen == 3

CloseAllInit ==
    /\ mode = "ui"
    /\ connected = TRUE
    /\ issued = MaxOpen
    /\ \E open \in SUBSET (1..MaxOpen) :
         /\ positions = open
         /\ trades = get_positions_as_dict(SetToSeq(open), {},
                                        [t \in open |-> 0], <<>>)
         /\ \E outs \in [open -> CloseOutcomes] :
              ut = [pc |-> "called", open |-> open, outs |-> outs,
                    attempted |-> {}, raised |-> FALSE]
    /\ daily_investments = <<>>
    /\ signals = <<>>
    /\ bot_running = FALSE
    /\ stop_bot = FALSE
    /\ pc = [w \in Workers |-> "off"]
    /\ loc = [w \in Workers |-> InitLoc]
    /\ cyc = [w \in Workers |-> InitCyc]
    /\ iters = 0
    /\ interrupted = FALSE
    /\ sz = SizerIdle

\* one call of close_all_trades, positions_get answering with the positions
CloseAllCall ==
    /\ ut.pc = "called"
    /\ LET r == close_all_trades([ok |-> TRUE, tickets |-> positions,
                                  profit |-> [t \in positions |-> 0]], ut.outs) IN
       /\ positions' = r.positions
       /\ trades' = r.trades
       /\ ut' = [ut EXCEPT !.pc = "left", !.attempted = r.attempted,
                           !.raised = r.raised]
    /\ UNCHANGED <<mode, connected, issued, daily_investments, signals, uiVars,
                   pc, loc, cyc, iters, sz>>

SpecCloseAll == CloseAllInit /\ [][CloseAllCall]_vars

\* C15: close_all_trades sends a closing order for every open position; a
\* failure at one position (a rejected order, a missing price, an error of
\* the database) does not keep it from sending the orders of the others
C15_EveryPositionAttempted ==
    ut.pc = "left" =>
        \A t \in ut.open : ut.outs[t] # "raise" => t \in ut.attempted

\* the tick of the first position was missing and a later position, whose
\* order would have been filled, is still open without an order sent for it
C15_LaterPositionSkipped ==
    /\ ut.pc = "left"
    /\ ut.raised
    /\ \E t \in ut.open, u \in positions :
         /\ t < u
         /\ ut.outs[t] = "raise"
         /\ ut.outs[u] = "done"
         /\ u \notin ut.attempted

\* ------------------------------------------------------------------------
\* db_service as functions of the tables: any sequence of calls on the trades
\* and on the day's investment, the rest of the program standing still
\* ------------------------------------------------------------------------
\* calls per sequence
MaxCalls == 3

\* tickets, close prices, profits and amounts the calls are made with; the
\* amounts are 5.0, 2.5, 0.1 and what process_trades commits with the whole
\* ceiling left at the price 2.1
StoreTickets == {1, 2}

StorePrices == {"tick", "later_tick"}

StoreProfits == {0, 7}

StoreAmounts ==
    { FFromInt(5), FDec(5, 2), FDec(1, 10),
      committed_amount(lot_size_of(DAILY_INVESTMENT_LIMIT, FDec(21, 10)),
                       FDec(21, 10)) }

StoreCall(op, ticket, price_close, profit, amount) ==
    [op |-> op, ticket |-> ticket, price_close |-> price_close,
     profit |-> profit, amount |-> amount]

\* the tickets are open positions from the start
StoreInit ==
    /\ mode = "ui"
    /\ connected = FALSE
    /\ positions = StoreTickets
    /\ issued = Cardinality(StoreTickets)
    /\ daily_investments = <<>>
    /\ signals = <<>>
    /\ trades = <<>>
    /\ bot_running = FALSE
    /\ stop_bot = FALSE
    /\ pc = [w \in Workers |-> "off"]
    /\ loc = [w \in Workers |-> InitLoc]
    /\ cyc = [w \in Workers |-> InitCyc]
    /\ iters = 0
    /\ interrupted = FALSE
    /\ sz = SizerIdle
    /\ ut = [pc |-> "store", calls |-> <<>>]

\* another call may follow
StoreOpen ==
    /\ ut.pc = "store"
    /\ Len(ut.calls) < MaxCalls

\* the upsert of one position seen by a poll; the other positions are not
\* seen, or their database access raises
StorePoll ==
    /\ StoreOpen
    /\ \E t \in StoreTickets, pr \in StoreProfits :
         /\ trades' = get_positions_as_dict(<<t>>, {}, t :> pr, trades)
         /\ ut' = [ut EXCEPT !.calls = Append(@, StoreCall("poll", t, "NULL", pr, FZero))]
    /\ UNCHANGED <<mode, brokerVars, daily_investments, signals, uiVars,
                   pc, loc, cyc, iters, sz>>

\* the record process_trades writes for a filled order, with profit 0.0; the
\* insert raises when the ticket is stored already
StorePlace ==
    /\ StoreOpen
    /\ \E t \in StoreTickets :
         /\ trades' = IF get_trade_by_ticket(trades, t) # 0 THEN trades
                       ELSE create_trade(trades, t, 0, 0, "place", TRUE)
         /\ ut' = [ut EXCEPT !.calls = Append(@, StoreCall("place", t, "NULL", 0, FZero))]
    /\ UNCHANGED <<mode, brokerVars, daily_investments, signals, uiVars,
                   pc, loc, cyc, iters, sz>>

\* db_service.close_trade(db, ticket, price, profit)
StoreClose ==
    /\ StoreOpen
    /\ \E t \in StoreTickets, p \in StorePrices, pr \in StoreProfits :
         /\ trades' = close_trade(trades, t, p, pr)
         /\ ut' = [ut EXCEPT !.calls = Append(@, StoreCall("close", t, p, pr, FZero))]
    /\ UNCHANGED <<mode, brokerVars, daily_investments, signals, uiVars,
                   pc, loc, cyc, iters, sz>>

\* db_service.update_daily_investment(db, today, amount)
StoreInvest ==
    /\ StoreOpen
    /\ \E a \in StoreAmounts :
         /\ daily_investments' = update_daily_investment(daily_investments, today, a)
         /\ ut' = [ut EXCEPT !.calls = Append(@, StoreCall("invest", 0, "NULL", 0, a))]
    /\ UNCHANGED <<mode, brokerVars, signals, trades, uiVars,
                   pc, loc, cyc, iters, sz>>

StoreNext ==
    \/ StorePoll
    \/ StorePlace
    \/ StoreClose
    \/ StoreInvest

SpecStore == StoreInit /\ [][StoreNext]_vars

\* the records of the trades table with the ticket
C16_RecordsOf(ticket) == {i \in 1..Len(trades) : trades[i].ticket = ticket}

\* C16: closing is idempotent per ticket: when the same closed-position
\* event (ticket, close price, profit) has been applied to a tracked ticket
\* twice in a row, the ticket has exactly one Trade record, and it is
\* inactive and carries the event's close price and profit and a close time
C16_CloseTwiceOneRecord ==
    \A n \in 2..Len(ut.calls) :
        ( /\ n = Len(ut.calls)
          /\ ut.calls[n].op = "close"
          /\ ut.calls[n - 1] = ut.calls[n]
          /\ \E k \in 1..(n - 2) :
                /\ ut.calls[k].op = "poll"
                /\ ut.calls[k].ticket = ut.calls[n].ticket )
        => /\ Cardinality(C16_RecordsOf(ut.calls[n].ticket)) = 1
           /\ \A i \in C16_RecordsOf(ut.calls[n].ticket) :
                 /\ ~trades[i].is_active
                 /\ trades[i].price_close = ut.calls[n].price_close
                 /\ trades[i].profit = ut.calls[n].profit
                 /\ trades[i].time_close # "NULL"

\* a polled ticket was closed twice by the same event, whose profit differs
\* from the profit the poll had stored
C16_ClosedTwice ==
    /\ Len(ut.calls) = 3
    /\ ut.calls[1].op = "poll"
    /\ ut.calls[2].op = "close"
    /\ ut.calls[3] = ut.calls[2]
    /\ ut.calls[1].ticket = ut.calls[2].ticket
    /\ ut.calls[1].profit # ut.calls[2].profit
    /\ Len(trades) = 1

\* C17: in every reachable state each Trade record is active if and only if
\* its close price and its close time are unset, and no two Trade records
\* have the same ticket
C17_ActiveIffUnclosed ==
    /\ \A i \in 1..Len(trades) :
          trades[i].is_active <=>
              (trades[i].price_close = "NULL" /\ trades[i].time_close = "NULL")
    /\ \A i, j \in 1..Len(trades) :
          trades[i].ticket = trades[j].ticket => i = j

\* the table holds two records, one of a position that close_all_trades
\* closed and one that is active
C17_ClosedAndActive ==
    \E i, j \in 1..Len(trades) :
        /\ ~trades[i].is_active
        /\ trades[i].price_close = "tick"
        /\ trades[j].is_active

\* whether a poll or a placement has stored the ticket within the first n
\* calls, and the profit its record should show then
RECURSIVE C18_Expected(_, _)
C18_Expected(ticket, n) ==
    IF n = 0 THEN [stored |-> FALSE, profit |-> 0]
    ELSE LET before == C18_Expected(ticket, n - 1)
             call   == ut.calls[n]
         IN  IF call.ticket # ticket \/ call.op = "invest" THEN before
             ELSE IF call.op = "poll"
                  THEN [stored |-> TRUE, profit |-> call.profit]
             ELSE IF call.op = "place"
                  THEN [stored |-> TRUE,
                        profit |-> IF before.stored THEN before.profit ELSE 0]
             ELSE [before EXCEPT !.profit = call.profit]

RECURSIVE C19_Sum(_)
C19_Sum(n) ==
    IF n = 0 THEN FZero
    ELSE IF ut.calls[n].op = "invest"
         THEN FAdd(C19_Sum(n - 1), ut.calls[n].amount)
    ELSE C19_Sum(n - 1)

\* C19: update_daily_investment adds to the stored amount and never replaces
\* it: after any sequence of calls for the date the amount stored equals the
\* sum of the amounts passed, and two calls with 5.0 give 10.0
C19_StoredAmountIsSum ==
    /\ \A i \in 1..Len(daily_investments) :
          daily_investments[i].amount = C19_Sum(Len(ut.calls))
    /\ (\E k \in 1..Len(ut.calls) : ut.calls[k].op = "invest")
          => daily_investments # <<>>
    /\ ( /\ Len(ut.calls) = 2
         /\ \A k \in 1..2 : /\ ut.calls[k].op = "invest"
                            /\ ut.calls[k].amount = FFromInt(5) )
       => get_daily_investment(daily_investments, today) = FFromInt(10)

\* two calls with 5.0 have been made and the day's record shows 10.0
C19_FivePlusFive ==
    /\ Len(ut.calls) = 2
    /\ \A k \in 1..2 : /\ ut.calls[k].op = "invest"
                       /\ ut.calls[k].amount = FFromInt(5)
    /\ Len(daily_investments) = 1
    /\ daily_investments[1].amount = FFromInt(10)

\* C20: there is at most one DailyInvestment record for a calendar day, and
\* over any sequence of updates within the day the record stays and its
\* amount never decreases
C20_OneRecordNeverLess ==
    /\ [](\A i, j \in 1..Len(daily_investments) :
            daily_investments[i].date = daily_investments[j].date => i = j)
    /\ [][\A i \in 1..Len(daily_investments) :
            /\ i <= Len(daily_investments')
            /\ daily_investments'[i].date = daily_investments[i].date
            /\ FLe(daily_investments[i].amount, daily_investments'[i].amount)]_vars

\* the day's record has been updated three times and shows more than the
\* largest single amount
C20_UpdatedThrice ==
    /\ Len(ut.calls) = 3
    /\ \A k \in 1..3 : ut.calls[k].op = "invest"
    /\ Len(daily_investments) = 1
    /\ daily_investments[1].date = today
    /\ \A a \in StoreAmounts : FLt(a, daily_investments[1].amount)

\* ------------------------------------------------------------------------
\* news_fetcher: get_latest_headlines as a function of its arguments and of
\* what the feed answers, the rest of the program standing still
\* ------------------------------------------------------------------------
\* the most retries, headlines asked for and events of a feed tried
MaxRetries == 3

MaxCount == 3

MaxEvents == 3

\* the number of headlines generate_mock_headlines writes
MOCK_HEADLINES == 5

\* the 'date' of an event: an ISO text with a UTC offset, hours from now; one
\* without an offset, for which the subtraction from the aware now raises
\* TypeError; or a text fromisoformat rejects (or no 'date' at all)
EventDates ==
    { [kind |-> "aware", hours |-> 1],
      [kind |-> "aware", hours |-> 5],
      [kind |-> "aware", hours |-> 0 - 3],
      [kind |-> "naive", hours |-> 0],
      [kind |-> "bad", hours |-> 0] }

Events == [impact : {"High", "Low", ""}, date : EventDates]

\* impact_priority.get(x.get('impact', ''), 0)
impact_priority(impact) ==
    CASE impact = "High" -> 3
      [] impact = "Medium" -> 2
      [] impact = "Low" -> 1
      [] OTHER -> 0

\* event['time_proximity']: abs(total_seconds()), float('inf') for a date
\* that cannot be parsed
time_proximity(event) ==
    IF event.date.kind = "aware"
    THEN [inf |-> FALSE,
          seconds |-> 3600 * (IF event.date.hours < 0 THEN 0 - event.date.hours
                              ELSE event.date.hours)]
    ELSE [inf |-> TRUE, seconds |-> 0]

\* the order of the sort keys (-priority, time_proximity): x before or with y
KeyLe(x, y) ==
    \/ impact_priority(x.impact) > impact_priority(y.impact)
    \/ /\ impact_priority(x.impact) = impact_priority(y.impact)
       /\ \/ time_proximity(y).inf
          \/ /\ ~time_proximity(x).inf
             /\ time_proximity(x).seconds <= time_proximity(y).seconds

\* sorted() is stable: an event goes behind the last one that is not after it
RECURSIVE InsertSorted(_, _)
InsertSorted(event, done) ==
    IF done = <<>> THEN <<event>>
    ELSE IF KeyLe(done[Len(done)], event) THEN Append(done, event)
    ELSE Append(InsertSorted(event, SubSeq(done, 1, Len(done) - 1)),
                done[Len(done)])

RECURSIVE SortFrom(_, _, _)
SortFrom(events, i, done) ==
    IF i > Len(events) THEN done
    ELSE SortFrom(events, i + 1, InsertSorted(events[i], done))

sorted(events) == SortFrom(events, 1, <<>>)

\* the headlines of generate_mock_headlines, told apart by their number
generate_mock_headlines ==
    [kind |-> "mock",
     headlines |-> [i \in 1..MOCK_HEADLINES |-> [impact |-> "mock", date |->
                                      [kind |-> "aware", hours |-> 0]]]]

\* a ranking by closeness to now alone
format_calendar_events_by_time(events, count) ==
    [kind |-> "events",
     headlines |-> Slice(SortFrom([i \in 1..Len(events) |->
                                      [events[i] EXCEPT !.impact = ""]],
                                  1, <<>>), count)]

\* format_calendar_events: the TypeError of a naive date leaves the function
\* at line 85; no headline at all gives the mock headlines
format_calendar_events(events, count) ==
    IF \E i \in 1..Len(events) : events[i].date.kind = "naive"
    THEN [kind |-> "raised", headlines |-> <<>>]
    ELSE IF Slice(sorted(events), count) = <<>> THEN generate_mock_headlines
    ELSE [kind |-> "events", headlines |-> Slice(sorted(events), count)]

RECURSIVE Feeds(_)
Feeds(n) ==
    IF n = 0 THEN {<<>>}
    ELSE Feeds(n - 1) \cup {Append(f, e) : f \in Feeds(n - 1), e \in Events}

RECURSIVE Pow2(_)
Pow2(n) == IF n = 0 THEN 1 ELSE 2 * Pow2(n - 1)

NewsInit ==
    /\ MainInit("ui")
    /\ sz = SizerIdle
    /\ \E count \in 1..MaxCount, max_retries \in 0..MaxRetries :
         ut = [pc |-> "loop", count |-> count, max_retries |-> max_retries,
               attempt |-> 0, fetches |-> 0, delays |-> <<>>, events |-> <<>>,
               result |-> [kind |-> "unset", headlines |-> <<>>]]

\* one pass of "for attempt in range(max_retries)": the request fails
\* (RequestException), the body is no JSON, or the events are formatted
NewsAttempt ==
    /\ ut.pc = "loop"
    /\ ut.attempt < ut.max_retries
    /\ \/ \E events \in Feeds(MaxEvents) :
            ut' = [ut EXCEPT !.pc = "done", !.fetches = @ + 1,
                             !.events = events,
                             !.result = format_calendar_events(events, ut.count)]
       \/ \E failure \in {"RequestException", "JSONDecodeError"} :
            IF ut.attempt < ut.max_retries - 1
            THEN ut' = [ut EXCEPT !.attempt = @ + 1, !.fetches = @ + 1,
                                  !.delays = Append(@, Pow2(ut.attempt))]
            ELSE ut' = [ut EXCEPT !.pc = "done", !.fetches = @ + 1,
                                  !.result = generate_mock_headlines]
    /\ UNCHANGED <<mode, brokerVars, dbVars, uiVars, pc, loc, cyc, iters, sz>>

\* the loop ends without a return: the function returns None
NewsLoopEnds ==
    /\ ut.pc = "loop"
    /\ ut.attempt >= ut.max_retries
    /\ ut' = [ut EXCEPT !.pc = "done", !.result.kind = "None"]
    /\ UNCHANGED <<mode, brokerVars, dbVars, uiVars, pc, loc, cyc, iters, sz>>

NewsNext ==
    \/ NewsAttempt
    \/ NewsLoopEnds

SpecNews == NewsInit /\ [][NewsNext]_vars

\* C21: get_latest_headlines returns headline text and does not raise, for
\* every max_retries and every failure of the feed: it fetches at most
\* max_retries times, sleeps 1, 2, 4, ... seconds before the retries, and
\* returns the synthetic headlines when the last attempt failed
C21_AlwaysReturnsHeadlines ==
    /\ ut.fetches <= ut.max_retries
    /\ \A i \in 1..Len(ut.delays) : ut.delays[i] = Pow2(i - 1)
    /\ ut.pc = "done" =>
          /\ ut.result.kind \in {"events", "mock"}
          /\ ut.result.headlines # <<>>

\* called with max_retries = 0 the function made no attempt and returned None
C21_ReturnedNone ==
    /\ ut.pc = "done"
    /\ ut.max_retries = 0
    /\ ut.fetches = 0
    /\ ut.result.kind = "None"

\* C22: the text get_latest_headlines returns holds at most count headlines,
\* from the ranked events as from the synthetic fallback
C22_AtMostCount ==
    (ut.pc = "done" /\ ut.result.kind \in {"events", "mock"}) =>
        Len(ut.result.headlines) <= ut.count

\* the feed failed on the last attempt and the caller that asked for fewer
\* than five headlines got the five synthetic ones
C22_MockExceedsCount ==
    /\ ut.pc = "done"
    /\ ut.fetches = ut.max_retries
    /\ ut.result.kind = "mock"
    /\ ut.count < Len(ut.result.headlines)

C23_Parsed(event) == event.date.kind = "aware"

C23_Distance(event) ==
    IF event.date.hours < 0 THEN 0 - event.date.hours ELSE event.date.hours

\* the returned headlines go by impact, higher first, and within one impact
\* by the distance of the event's time from now, unparseable times last
C23_Ranked ==
    \A i, j \in 1..Len(ut.result.headlines) :
        i < j =>
            LET x == ut.result.headlines[i]
                y == ut.result.headlines[j]
            IN  \/ impact_priority(x.impact) > impact_priority(y.impact)
                \/ /\ impact_priority(x.impact) = impact_priority(y.impact)
                   /\ C23_Parsed(y) => /\ C23_Parsed(x)
                                       /\ C23_Distance(x) <= C23_Distance(y)

C24_NoOrderFromSubstitutePrice ==
    \A w \in Workers :
        pc[w] \in {"pt_place", "pt_record"} =>
            loc[w].currency_price # FALLBACK_PRICE

\* get_symbol_info returned {}, the price became 1.0, the lot was sized from
\* it and the broker filled the order
C24_OrderFromSubstitutePrice ==
    \E w \in Workers :
        /\ pc[w] = "pt_record"
        /\ loc[w].currency_price = FALLBACK_PRICE
        /\ loc[w].lot_size = BASE_LOT
        /\ loc[w].trade_result.kind = "done"

\* C25: a database write that fails while the order is recorded (the day's
\* amount, the executed flag, the Trade) does not abort the iteration: the
\* worker does not go from the recording to the loop's exception handler
C25_WriteFailureDoesNotAbort ==
    [][\A w \in Workers : pc[w] = "pt_record" => pc'[w] # OnError]_vars

\* the day's amount was written, marking the signal executed raised, and the
\* worker is in the loop's exception handler with no signal marked and no
\* Trade written by the placement
C25_AbortedAfterAmount ==
    \E w \in Workers :
        /\ pc[w] = OnError
        /\ cyc[w].sig_saved
        /\ cyc[w].opened
        /\ daily_investments # <<>>
        /\ \A i \in 1..Len(signals) : ~signals[i].executed
        /\ \A i \in 1..Len(trades) : trades[i].g_by # "place"

\* C26: after a trade cycle the stored DailyInvestment amount of the day is
\* at most the configured daily investment limit, whatever amount at or
\* below the limit the day held before
C26_AmountWithinCeiling ==
    (sz.pc = "sized" /\ FLe(sz.invested, DAILY_INVESTMENT_LIMIT)) =>
        FLe(sz.stored, DAILY_INVESTMENT_LIMIT)

\* the first order of a day at the price 2.1 brought the day's amount above
\* the ceiling
C26_AmountAboveCeiling ==
    /\ sz.pc = "sized"
    /\ sz.invested = FZero
    /\ sz.currency_price = FDec(21, 10)
    /\ FLt(DAILY_INVESTMENT_LIMIT, sz.stored)

\* C27: the requests of place_trade (tick, order_send) and close_all_trades
\* (positions_get, tick, order_send) of a loop iteration are made while the
\* session with the terminal is open
C27_RequestsWhileConnected ==
    [][\A w \in Workers :
          (\/ pc[w] = "pt_place" /\ pc'[w] \in {"pt_record", OnError}
           \/ pc[w] = "ca" /\ pc'[w] \in {"sleep", OnError}) => connected]_vars

\* the cli's only thread is about to call place_trade after the snapshot
\* helpers shut the session down
C27_PlaceWhileClosed ==
    /\ mode = "cli"
    /\ pc[1] = "pt_place"
    /\ ~connected

\* C28: the day's DailyInvestment amount changes only in a cycle whose order
\* the broker confirmed as filled
C28_AmountOnlyIfFilled ==
    [][daily_investments' # daily_investments =>
          \E w \in Workers : /\ pc[w] = "pt_record"
                             /\ pc'[w] # "pt_record"
                             /\ loc[w].trade_result.kind = "done"]_vars

\* the day has an amount although the broker never filled an order
C28_AmountWithoutFill ==
    /\ issued = 0
    /\ daily_investments # <<>>
    /\ FLt(FZero, daily_investments[1].amount)

\* ------------------------------------------------------------------------
\* market_data.get_positions_as_dict between opens and closes of positions
\* at the broker, the rest of the program standing still
\* ------------------------------------------------------------------------
PollInit ==
    /\ MainInit("ui")
    /\ sz = SizerIdle
    /\ ut = [pc |-> "poll", polled |-> FALSE]

\* the broker opens a position under a new ticket
BrokerOpen ==
    /\ ut.pc = "poll"
    /\ issued < MaxOpen
    /\ issued' = issued + 1
    /\ positions' = positions \cup {issued + 1}
    /\ ut' = [ut EXCEPT !.polled = FALSE]
    /\ UNCHANGED <<mode, connected, dbVars, uiVars, pc, loc, cyc, iters, sz>>

\* a position is closed at the broker (stop, margin call, another terminal)
BrokerClose ==
    /\ ut.pc = "poll"
    /\ \E t \in positions : positions' = positions \ {t}
    /\ ut' = [ut EXCEPT !.polled = FALSE]
    /\ UNCHANGED <<mode, connected, issued, dbVars, uiVars, pc, loc, cyc, iters, sz>>

\* get_positions_as_dict with the connection made, positions_get answering
\* with every open position and no database access raising
PollPositions ==
    /\ ut.pc = "poll"
    /\ \E pr \in StoreProfits :
         trades' = get_positions_as_dict(SetToSeq(positions), {},
                                         [t \in positions |-> pr], trades)
    /\ ut' = [ut EXCEPT !.polled = TRUE]
    /\ UNCHANGED <<mode, brokerVars, daily_investments, signals, uiVars,
                   pc, loc, cyc, iters, sz>>

PollNext ==
    \/ BrokerOpen
    \/ BrokerClose
    \/ PollPositions

SpecPoll == PollInit /\ [][PollNext]_vars

\* C29: after a poll of the open positions that completed without error, the
\* tickets of the active Trade records are exactly the tickets of the
\* positions open at the broker
C29_ActiveTicketsAreOpenPositions ==
    ut.polled =>
        {trades[i].ticket : i \in {k \in 1..Len(trades) : trades[k].is_active}}
            = positions

\* position 1 was polled, closed at the broker and polled again: its record
\* is still active
C29_ClosedPositionStillActive ==
    /\ ut.polled
    /\ 1 \notin positions
    /\ \E i \in 1..Len(trades) : trades[i].ticket = 1 /\ trades[i].is_active

\* the Trade records written by process_trades for the order it placed
C30_PlacedTrades(tr) == {i \in 1..Len(tr) : tr[i].g_by = "place"}

\* C30: a cycle of process_trades that ends without an order (the signal is
\* NO TRADE, or it is BUY or SELL with the daily limit reached) leaves the
\* DailyInvestment amount and the Trade records written for placed orders
\* as they were, and leaves its Signal and every other Signal with the
\* executed flag it had (the new Signal unexecuted)
C30_NoOrderNoTrace ==
    [][\A w \in Workers :
          (pc[w] = "pt" /\ pc'[w] = "sleep") =>
             /\ daily_investments' = daily_investments
             /\ C30_PlacedTrades(trades') = C30_PlacedTrades(trades)
             /\ \A i \in C30_PlacedTrades(trades) : trades'[i] = trades[i]
             /\ Len(signals') = Len(signals) + 1
             /\ ~signals'[Len(signals')].executed
             /\ \A i \in 1..Len(signals) :
                   signals'[i].executed = signals[i].executed]_vars

\* a cycle ended at the capital gate: its BUY or SELL Signal is stored
\* unexecuted, the day's amount is at the ceiling and the worker sleeps
C30_EndedAtGate ==
    \E w \in Workers :
        /\ pc[w] = "sleep"
        /\ cyc[w].sig_saved
        /\ ~cyc[w].opened
        /\ signals # <<>>
        /\ signals[Len(signals)].signal_type \in {"BUY", "SELL"}
        /\ ~signals[Len(signals)].executed
        /\ check_daily_limit(daily_investments)[1]

============================================================================
